---- MODULE Spec2Model ----
(***************************************************************************)
(* Model of libgit2-sys/emscripten-transport/emscriptenhttp-async.c: the   *)
(* smart-HTTP subtransport that bridges libgit2 streams to the host        *)
(* (JavaScript) primitives emscriptenhttpconnect / emscriptenhttpread /    *)
(* emscriptenhttpwrite.                                                    *)
(*                                                                         *)
(* C strings are sequences of bytes (character codes); JavaScript strings  *)
(* are sequences of one-character strings.  A size_t is a 32-bit word kept *)
(* as <<high 16 bits, low 16 bits>>; an int is an integer in               *)
(* -2^31 .. 2^31-1.                                                        *)
(***************************************************************************)
EXTENDS Integers, Sequences, FiniteSets, TLC

(***************************************************************************)
(* Bounds of the model.                                                    *)
(***************************************************************************)
\* streams the driver creates in one run of SpecStreams
MaxStreams == 2
\* read/write calls made on one stream
MaxCalls == 3
\* path segments of a base URL in SpecUrl
MaxBaseSegs == 2

(***************************************************************************)
(* Characters and strings.                                                 *)
(***************************************************************************)
Chars ==
    <<"/", "-", "=", "?", "a", "c", "d", "e", "f", "g", "h", "i", "k", "l", "n", "o", "p", "r", "s", "t", "u", "v">>

Codes ==
    <<47, 45, 61, 63, 97, 99, 100, 101, 102, 103, 104, 105, 107, 108, 110, 111, 112, 114, 115, 116, 117, 118>>

\* the byte of an ASCII character
Ord(c) ==
    Codes[CHOOSE i \in 1..Len(Chars) : Chars[i] = c]

\* a C string literal: the bytes of its characters
CStr(lit) ==
    [i \in 1..Len(lit) |-> Ord(lit[i])]

\* UTF8ToString on a NUL-terminated buffer holding ASCII bytes: every byte
\* below 0x80 decodes to the character of that code
UTF8ToString(url) ==
    [i \in 1..Len(url) |-> Chars[CHOOSE k \in 1..Len(Codes) : Codes[k] = url[i]]]

\* String.prototype.indexOf: the 0-based position of the first occurrence of
\* pat in str, -1 when there is none
indexOf(str, pat) ==
    LET hits == {k \in 0..(Len(str) - Len(pat)) : SubSeq(str, k + 1, k + Len(pat)) = pat}
    IN  IF hits = {} THEN -1 ELSE CHOOSE k \in hits : \A j \in hits : k <= j

upload_pack_ls_service_url ==
    CStr(<<"/","i","n","f","o","/","r","e","f","s","?","s","e","r","v","i","c","e","=","g","i","t","-","u","p","l","o","a","d","-","p","a","c","k">>)

upload_pack_service_url ==
    CStr(<<"/","g","i","t","-","u","p","l","o","a","d","-","p","a","c","k">>)

receive_pack_ls_service_url ==
    CStr(<<"/","i","n","f","o","/","r","e","f","s","?","s","e","r","v","i","c","e","=","g","i","t","-","r","e","c","e","i","v","e","-","p","a","c","k">>)

receive_pack_service_url ==
    CStr(<<"/","g","i","t","-","r","e","c","e","i","v","e","-","p","a","c","k">>)

\* the JavaScript literal 'git-upload-pack' of emscriptenhttp_do_post
GitUploadPackJs ==
    <<"g","i","t","-","u","p","l","o","a","d","-","p","a","c","k">>

GitReceivePackJs ==
    <<"g","i","t","-","r","e","c","e","i","v","e","-","p","a","c","k">>

UploadPackRequest == "application/x-git-upload-pack-request"
ReceivePackRequest == "application/x-git-receive-pack-request"

(***************************************************************************)
(* 32-bit words.                                                           *)
(***************************************************************************)
Half == 2^16

\* the size_t of an unsigned value given by its halves
Word(hi, lo) == <<hi, lo>>

\* #define DEFAULT_BUFSIZE 65536
DEFAULT_BUFSIZE == Word(1, 0)

\* a conversion that saturates instead of wrapping
SizeToIntUnsigned(w) ==
    IF w[1] >= Half \div 2 THEN (Half \div 2 - 1) * Half + (Half - 1) ELSE w[1] * Half + w[2]

\* the conversion of `int read = emscriptenhttp_do_read(...)`: a 32-bit
\* size_t narrowed to a 32-bit int keeps its bits, so words of 2^31 and
\* more become negative
SizeToInt(w) ==
    IF w[1] >= Half \div 2 THEN (w[1] - Half) * Half + w[2] ELSE w[1] * Half + w[2]

\* the conversion of `(size_t)read`
IntToSize(i) ==
    Word((i \div Half) % Half, i % Half)

\* a JavaScript integer of magnitude below 2^32: sign and the halves of |n|
JsInt(sign, hi, lo) == [sign |-> sign, hi |-> hi, lo |-> lo]

\* the value a JavaScript number has as the size_t result of an EM_JS
\* function: the number modulo 2^32
ToUint32(n) ==
    IF n.sign >= 0
        THEN Word(n.hi, n.lo)
        ELSE Word((Half - n.hi - (IF n.lo = 0 THEN 0 ELSE 1)) % Half, (Half - n.lo) % Half)

(***************************************************************************)
(* Inputs.                                                                 *)
(***************************************************************************)
\* git_smart_service_t, the four services of the smart protocol
Services ==
    {"GIT_SERVICE_UPLOADPACK_LS", "GIT_SERVICE_UPLOADPACK", "GIT_SERVICE_RECEIVEPACK_LS", "GIT_SERVICE_RECEIVEPACK"}

\* pieces the path of a base URL is made of
Segments ==
    {CStr(<<"/">>), CStr(GitUploadPackJs), CStr(GitReceivePackJs)}

RECURSIVE PathsOf(_)
PathsOf(n) ==
    IF n = 0 THEN {<<>>}
    ELSE PathsOf(n - 1) \cup {u \o g : u \in PathsOf(n - 1), g \in Segments}

\* the base URLs of SpecUrl: "h", standing for scheme and host, then a path
\* of up to MaxBaseSegs segments
BaseUrls ==
    {CStr(<<"h">>) \o path : path \in PathsOf(MaxBaseSegs)}

StreamIds == 1..MaxStreams

\* what the host may return from emscriptenhttpconnect (an int)
Handles == {-1, 0, 1}

\* what the host may resolve emscriptenhttpread to: byte counts 0, 1, 5,
\* 2^31 - 1, 2^31 and 2^32 - 1, and the error codes -1 and -2^31
HostReadResults ==
    {JsInt(1, 0, 0), JsInt(1, 0, 1), JsInt(1, 0, 5), JsInt(1, 32767, 65535), JsInt(1, 32768, 0), JsInt(1, 65535, 65535), JsInt(-1, 0, 1), JsInt(-1, 32768, 0)}

\* one byte count and one error code
FewReadResults ==
    {JsInt(1, 0, 1), JsInt(-1, 0, 1)}

\* what the host may return from emscriptenhttpwrite
HostWriteResults == {0, -1}

Buffers == {"buf1", "buf2"}

\* capacities and lengths callers pass
BufSizes == {Word(0, 4), Word(32768, 0)}

(***************************************************************************)
(* State.                                                                  *)
(***************************************************************************)
VARIABLES
    subtransport,  \* the emscriptenhttp_subtransport: "live" or "freed"
    heap,          \* per stream: "unalloc", "live" or "freed"
    streams,       \* per stream: the fields of emscriptenhttp_stream
    created,       \* per stream: the url and action emscriptenhttp_action got
    hist,          \* per stream: calls of read/write, host opens, opens that returned -1
    hostConns,     \* the connections the host has opened and not closed
    bytes_read,    \* the caller's size_t bytes_read
    git_error,     \* the message of the last git_error_set
    ret            \* the last call: operation, stream, status, host calls made

vars == <<subtransport, heap, streams, created, hist, hostConns, bytes_read, git_error, ret>>

\* s->connectionNo = -1: no connection opened yet
NotOpened == -1

\* calloc'ed, service_url not yet set
NullStr == <<>>

\* the arguments of a call that takes no buffer
NoArgs == [buffer |-> "none", size |-> Word(0, 0)]

\* a value the caller's bytes_read holds before any read
BytesReadInit == Word(43690, 43690)

\* bookkeeping for the properties: the handle and bytes_read a call found
Snapshot(id) ==
    [connectionNo |-> streams[id].connectionNo, bytes_read |-> bytes_read]

(***************************************************************************)
(* Host primitives, as the EM_JS wrappers call them.  The host's answer is *)
(* an input: h for emscriptenhttpconnect, n for emscriptenhttpread.        *)
(***************************************************************************)
\* the Content-Type header emscriptenhttp_do_post sends
ContentType(urlString) ==
    IF indexOf(urlString, GitUploadPackJs) > 0 THEN UploadPackRequest ELSE ReceivePackRequest

emscriptenhttp_do_get(url, buf_size, h) ==
    [prim |-> "connect", url |-> UTF8ToString(url), size |-> buf_size, method |-> "GET", ctype |-> "none", result |-> h]

emscriptenhttp_do_post(url, buf_size, h) ==
    [prim |-> "connect", url |-> UTF8ToString(url), size |-> buf_size, method |-> "POST", ctype |-> ContentType(UTF8ToString(url)), result |-> h]

emscriptenhttp_do_read(connectionNo, buffer, buf_size, n) ==
    [prim |-> "read", conn |-> connectionNo, buffer |-> buffer, size |-> buf_size, answer |-> n, result |-> ToUint32(n)]

\* EM_ASM({ return Module.emscriptenhttpwrite($0, $1, $2); }, ...)
emscriptenhttpwrite(connectionNo, buffer, len, r) ==
    [prim |-> "write", conn |-> connectionNo, buffer |-> buffer, size |-> len, result |-> r]

\* the connection the host holds after a connect call
Connection(call) ==
    [conn |-> call.result, method |-> call.method, url |-> call.url, ctype |-> call.ctype]

(***************************************************************************)
(* The URL builder.                                                        *)
(***************************************************************************)
\* the switch of emscriptenhttp_action
ServiceSuffixSwapped(action) ==
    CASE action = "GIT_SERVICE_UPLOADPACK_LS" -> upload_pack_ls_service_url
      [] action = "GIT_SERVICE_UPLOADPACK" -> upload_pack_service_url
      [] action = "GIT_SERVICE_RECEIVEPACK_LS" -> receive_pack_service_url
      [] action = "GIT_SERVICE_RECEIVEPACK" -> receive_pack_ls_service_url

ServiceSuffix(action) ==
    CASE action = "GIT_SERVICE_UPLOADPACK_LS" -> upload_pack_ls_service_url
      [] action = "GIT_SERVICE_UPLOADPACK" -> upload_pack_service_url
      [] action = "GIT_SERVICE_RECEIVEPACK_LS" -> receive_pack_ls_service_url
      [] action = "GIT_SERVICE_RECEIVEPACK" -> receive_pack_service_url

\* git_str_printf(&buf, "%s%s", url, suffix); git_str_cstr(&buf)
git_str_printf(url, suffix) ==
    url \o suffix

(***************************************************************************)
(* Streams.                                                                *)
(***************************************************************************)
emscriptenhttp_stream_alloc_opened ==
    [service_url |-> NullStr, connectionNo |-> 0]

\* git__calloc, then connectionNo = -1
emscriptenhttp_stream_alloc ==
    [service_url |-> NullStr, connectionNo |-> NotOpened]

\* `if (s->connectionNo == -1)` of read
ReadAlwaysOpens(s) ==
    TRUE

ReadNeedsOpen(s) ==
    s.connectionNo = NotOpened

\* `if (s->connectionNo == -1)` of write
WriteNeverOpens(s) ==
    FALSE

WriteNeedsOpen(s) ==
    s.connectionNo = NotOpened

\* `if (read < 0)`
ReadFailedOnZero(read) ==
    read <= 0

ReadFailedBelowMinusOne(read) ==
    read < -1

ReadFailed(read) ==
    read < 0

\* `return 0` of write
WriteStatusOfHost(r) ==
    r

WriteStatus(r) ==
    0

\* bookkeeping for the properties: what has been called on a stream so far
NoHist == [calls |-> 0, reads |-> 0, writes |-> 0, opens |-> 0, failedOpens |-> 0]

\* the counts of a stream after a call that made the host calls `host`
Counted(h, op, host) ==
    LET os == {i \in 1..Len(host) : host[i].prim = "connect"}
    IN  [calls |-> h.calls + 1, reads |-> h.reads + (IF op = "read" THEN 1 ELSE 0), writes |-> h.writes + (IF op = "write" THEN 1 ELSE 0), opens |-> h.opens + Cardinality(os), failedOpens |-> h.failedOpens + Cardinality({i \in os : host[i].result = NotOpened})]

\* read and write calls made so far, on all streams
RECURSIVE CallsUpTo(_)
CallsUpTo(n) ==
    IF n = 0 THEN 0 ELSE hist[n].calls + CallsUpTo(n - 1)

CallsMade == CallsUpTo(MaxStreams)

\* the connections the host opened during a call
Opened(host) ==
    {Connection(host[i]) : i \in {j \in 1..Len(host) : host[j].prim = "connect"}}

emscriptenhttp_action(id, url, action) ==
    /\ subtransport = "live"
    /\ heap[id] = "unalloc"
    /\ \A j \in StreamIds : j < id => heap[j] # "unalloc"
    /\ heap' = [heap EXCEPT ![id] = "live"]
    /\ streams' = [streams EXCEPT ![id] = [emscriptenhttp_stream_alloc EXCEPT !.service_url = git_str_printf(url, ServiceSuffix(action))]]
    /\ created' = [created EXCEPT ![id] = [url |-> url, action |-> action]]
    /\ ret' = [op |-> "action", s |-> id, status |-> 0, host |-> <<>>, pre |-> Snapshot(id), args |-> NoArgs]
    /\ UNCHANGED <<subtransport, hist, hostConns, bytes_read, git_error>>

emscriptenhttp_stream_read(id, buffer, buf_size, h, n) ==
    /\ heap[id] = "live"
    /\ CallsMade < MaxCalls
    /\ LET s == streams[id]
           open == IF ReadNeedsOpen(s) THEN <<emscriptenhttp_do_get(s.service_url, DEFAULT_BUFSIZE, h)>> ELSE <<>>
           connectionNo == IF ReadNeedsOpen(s) THEN h ELSE s.connectionNo
           call == emscriptenhttp_do_read(connectionNo, buffer, buf_size, n)
           host == open \o <<call>>
           read == SizeToInt(call.result)
       IN  /\ streams' = [streams EXCEPT ![id].connectionNo = connectionNo]
           /\ hostConns' = hostConns \cup Opened(host)
           /\ hist' = [hist EXCEPT ![id] = Counted(hist[id], "read", host)]
           /\ IF ReadFailed(read)
                 THEN /\ git_error' = "request aborted by user"
                      /\ bytes_read' = bytes_read
                      /\ ret' = [op |-> "read", s |-> id, status |-> -1, host |-> host, pre |-> Snapshot(id), args |-> [buffer |-> buffer, size |-> buf_size]]
                 ELSE /\ git_error' = git_error
                      /\ bytes_read' = IntToSize(read)
                      /\ ret' = [op |-> "read", s |-> id, status |-> 0, host |-> host, pre |-> Snapshot(id), args |-> [buffer |-> buffer, size |-> buf_size]]
    /\ UNCHANGED <<subtransport, heap, created>>

emscriptenhttp_stream_write_single(id, buffer, len, h, r) ==
    /\ heap[id] = "live"
    /\ CallsMade < MaxCalls
    /\ LET s == streams[id]
           open == IF WriteNeedsOpen(s) THEN <<emscriptenhttp_do_post(s.service_url, DEFAULT_BUFSIZE, h)>> ELSE <<>>
           connectionNo == IF WriteNeedsOpen(s) THEN h ELSE s.connectionNo
           host == open \o <<emscriptenhttpwrite(connectionNo, buffer, len, r)>>
       IN  /\ streams' = [streams EXCEPT ![id].connectionNo = connectionNo]
           /\ hostConns' = hostConns \cup Opened(host)
           /\ hist' = [hist EXCEPT ![id] = Counted(hist[id], "write", host)]
           /\ ret' = [op |-> "write", s |-> id, status |-> WriteStatus(r), host |-> host, pre |-> Snapshot(id), args |-> [buffer |-> buffer, size |-> len]]
    /\ UNCHANGED <<subtransport, heap, created, bytes_read, git_error>>

\* a free that also drops the host's connection
emscriptenhttp_stream_free_closing(id) ==
    /\ heap[id] = "live"
    /\ heap' = [heap EXCEPT ![id] = "freed"]
    /\ streams' = [streams EXCEPT ![id] = emscriptenhttp_stream_alloc]
    /\ hostConns' = {c \in hostConns : c.conn # streams[id].connectionNo}
    /\ ret' = [op |-> "stream_free", s |-> id, status |-> 0, host |-> <<>>, pre |-> Snapshot(id), args |-> NoArgs]
    /\ UNCHANGED <<subtransport, created, hist, bytes_read, git_error>>

\* git__free(s): the stream's fields are gone, the host is not told
emscriptenhttp_stream_free(id) ==
    /\ heap[id] = "live"
    /\ heap' = [heap EXCEPT ![id] = "freed"]
    /\ streams' = [streams EXCEPT ![id] = emscriptenhttp_stream_alloc]
    /\ ret' = [op |-> "stream_free", s |-> id, status |-> 0, host |-> <<>>, pre |-> Snapshot(id), args |-> NoArgs]
    /\ UNCHANGED <<subtransport, created, hist, hostConns, bytes_read, git_error>>

(***************************************************************************)
(* The subtransport.                                                       *)
(***************************************************************************)
\* bookkeeping for the properties: the record of a call on the subtransport
NoCall(op, did) ==
    [op |-> op, did |-> did, s |-> 0, status |-> 0, host |-> <<>>, pre |-> [connectionNo |-> NotOpened, bytes_read |-> bytes_read], args |-> NoArgs]

\* return 0
emscriptenhttp_close ==
    /\ subtransport = "live"
    /\ ret' = NoCall("close", <<>>)
    /\ UNCHANGED <<subtransport, heap, streams, created, hist, hostConns, bytes_read, git_error>>

\* emscriptenhttp_close(subtransport); git__free(t)
emscriptenhttp_free ==
    /\ subtransport = "live"
    /\ subtransport' = "freed"
    /\ ret' = NoCall("free", <<"emscriptenhttp_close", "git__free">>)
    /\ UNCHANGED <<heap, streams, created, hist, hostConns, bytes_read, git_error>>

\* git_smart_subtransport_http: a subtransport with no stream yet
Init ==
    /\ subtransport = "live"
    /\ heap = [id \in StreamIds |-> "unalloc"]
    /\ streams = [id \in StreamIds |-> emscriptenhttp_stream_alloc]
    /\ created = [id \in StreamIds |-> [url |-> NullStr, action |-> "none"]]
    /\ hist = [id \in StreamIds |-> NoHist]
    /\ hostConns = {}
    /\ bytes_read = BytesReadInit
    /\ git_error = "none"
    /\ ret = NoCall("git_smart_subtransport_http", <<"git__calloc">>)

(***************************************************************************)
(* Specifications.  The driver calls the operations in any order and mix;  *)
(* the host answers with any value of the sets given.                      *)
(***************************************************************************)
Action(ids, urls, services) ==
    \E id \in ids, url \in urls, action \in services : emscriptenhttp_action(id, url, action)

Read(ids, buffers, sizes, handles, results) ==
    \E id \in ids, buffer \in buffers, buf_size \in sizes, h \in handles, n \in results : emscriptenhttp_stream_read(id, buffer, buf_size, h, n)

Write(ids, buffers, sizes, handles, results) ==
    \E id \in ids, buffer \in buffers, len \in sizes, h \in handles, r \in results : emscriptenhttp_stream_write_single(id, buffer, len, h, r)

StreamFree(ids) ==
    \E id \in ids : emscriptenhttp_stream_free(id)

\* one stream, every host handle and every host write result
Next ==
    \/ Action({1}, {CStr(<<"h">>)}, Services)
    \/ Read({1}, Buffers, {Word(0, 4)}, Handles, FewReadResults)
    \/ Write({1}, Buffers, {Word(0, 4)}, Handles, HostWriteResults)
    \/ StreamFree({1})
    \/ emscriptenhttp_close
    \/ emscriptenhttp_free

Spec == Init /\ [][Next]_vars

\* one stream, every host read result and capacity
NextRead ==
    \/ Action({1}, {CStr(<<"h">>)}, {"GIT_SERVICE_UPLOADPACK_LS", "GIT_SERVICE_UPLOADPACK"})
    \/ Read({1}, {"buf1"}, BufSizes, {-1, 0}, HostReadResults)
    \/ Write({1}, {"buf1"}, {Word(0, 4)}, {-1, 0}, {0})
    \/ StreamFree({1})
    \/ emscriptenhttp_close
    \/ emscriptenhttp_free

SpecRead == Init /\ [][NextRead]_vars

\* one stream, every base URL and service
NextUrl ==
    \/ Action({1}, BaseUrls, Services)
    \/ Read({1}, {"buf1"}, {Word(0, 4)}, {0}, FewReadResults)
    \/ Write({1}, {"buf1"}, {Word(0, 4)}, {0}, {0})
    \/ StreamFree({1})
    \/ emscriptenhttp_close
    \/ emscriptenhttp_free

SpecUrl == Init /\ [][NextUrl]_vars

\* several streams, their calls interleaved
NextStreams ==
    \/ Action(StreamIds, {CStr(<<"h">>)}, {"GIT_SERVICE_UPLOADPACK_LS", "GIT_SERVICE_RECEIVEPACK"})
    \/ Read(StreamIds, {"buf1"}, {Word(0, 4)}, {0, 1}, {JsInt(1, 0, 1)})
    \/ Write(StreamIds, {"buf1"}, {Word(0, 4)}, {0, 1}, {0})
    \/ StreamFree(StreamIds)

SpecStreams == Init /\ [][NextStreams]_vars

(***************************************************************************)
(* Vocabulary of the properties.                                           *)
(***************************************************************************)
IsCall == ret.op \in {"read", "write"}

\* the host calls of the last operation of one kind
HostCalls(prim) ==
    {i \in 1..Len(ret.host) : ret.host[i].prim = prim}

\* the host read or write the last call issued (it is the last host call)
LastIO == ret.host[Len(ret.host)]

\* a JavaScript string spells a C string, byte for byte
Spells(str, cstr) ==
    /\ Len(str) = Len(cstr)
    /\ \A i \in 1..Len(cstr) : Ord(str[i]) = cstr[i]

\* the fixed suffix of each service, as the interface documents it
FixedSuffix(action) ==
    CASE action = "GIT_SERVICE_UPLOADPACK_LS" -> <<"/","i","n","f","o","/","r","e","f","s","?","s","e","r","v","i","c","e","=">> \o GitUploadPackJs
      [] action = "GIT_SERVICE_UPLOADPACK" -> <<"/">> \o GitUploadPackJs
      [] action = "GIT_SERVICE_RECEIVEPACK_LS" -> <<"/","i","n","f","o","/","r","e","f","s","?","s","e","r","v","i","c","e","=">> \o GitReceivePackJs
      [] action = "GIT_SERVICE_RECEIVEPACK" -> <<"/">> \o GitReceivePackJs

\* the word is 2^31 or more
HighBit(w) == w[1] >= 32768

\* unsigned order on words
WordLess(a, b) ==
    a[1] < b[1] \/ (a[1] = b[1] /\ a[2] < b[2])

(***************************************************************************)
(* C1: for every base URL and each of the four services,                   *)
(* emscriptenhttp_action returns 0 and the stream's service URL is the     *)
(* base URL followed, byte for byte, by the fixed suffix of the service.   *)
(***************************************************************************)
C1_ServiceUrlIsBasePlusSuffix ==
    /\ ret.op = "action" => ret.status = 0
    /\ \A id \in StreamIds : heap[id] = "live" =>
          /\ Len(streams[id].service_url) = Len(created[id].url) + Len(FixedSuffix(created[id].action))
          /\ SubSeq(streams[id].service_url, 1, Len(created[id].url)) = created[id].url
          /\ Spells(FixedSuffix(created[id].action), SubSeq(streams[id].service_url, Len(created[id].url) + 1, Len(streams[id].service_url)))

C1_Witness ==
    /\ ret.op = "action"
    /\ heap[1] = "live"
    /\ created[1].action = "GIT_SERVICE_RECEIVEPACK_LS"
    /\ created[1].url = CStr(<<"h", "/">> \o GitUploadPackJs)

(***************************************************************************)
(* C2 as stated: on every stream that has been read or written, the host   *)
(* open primitives were invoked exactly once in total, whatever handle     *)
(* they returned.                                                          *)
(***************************************************************************)
C2_OpenedExactlyOnce ==
    \A id \in StreamIds : hist[id].calls >= 1 => hist[id].opens = 1

(***************************************************************************)
(* C2 as amended: a call opens a connection exactly when the stream's      *)
(* handle is -1 on entry, so the host opens are the first call's plus one  *)
(* for every later call that follows opens which all returned -1; once an  *)
(* open has returned a handle other than -1 no later call opens again, and *)
(* at most one open ever returned such a handle.                           *)
(***************************************************************************)
C2_OpenedOnceUnlessSentinelReturned ==
    /\ \A id \in StreamIds : heap[id] = "live" =>
          /\ hist[id].calls >= 1 => hist[id].opens >= 1
          /\ hist[id].opens <= hist[id].calls
          /\ hist[id].opens - hist[id].failedOpens = (IF streams[id].connectionNo # -1 THEN 1 ELSE 0)
          /\ hist[id].failedOpens = 0 /\ hist[id].calls >= 1 => hist[id].opens = 1
    /\ IsCall => Cardinality(HostCalls("connect")) = (IF ret.pre.connectionNo = -1 THEN 1 ELSE 0)

C2_Witness ==
    /\ ret.op = "write"
    /\ hist[1].reads >= 1
    /\ hist[1].calls = 3
    /\ hist[1].opens = 1
    /\ ret.pre.connectionNo = 1

(***************************************************************************)
(* C3 as stated: when the host read returns a negative value, read returns *)
(* -1 with "request aborted by user" set, bytes_read keeps the value it    *)
(* had before the call, and the stream's connection handle is the one it   *)
(* had before the call.                                                    *)
(***************************************************************************)
C3_NegativeReadFailsHandleUnchanged ==
    ret.op = "read" /\ LastIO.answer.sign < 0 =>
        /\ ret.status = -1
        /\ git_error = "request aborted by user"
        /\ bytes_read = ret.pre.bytes_read
        /\ streams[ret.s].connectionNo = ret.pre.connectionNo

(***************************************************************************)
(* C3 as amended: when the host read returns a negative value, read        *)
(* returns -1 with "request aborted by user" set and bytes_read keeps the  *)
(* value it had before the call; the stream's connection handle is the one *)
(* the host read was issued with: the handle it had before the call when   *)
(* that was not -1, else the handle the call's own open returned.  The     *)
(* failure does not reset it.                                              *)
(***************************************************************************)
C3_NegativeReadFailsHandleKept ==
    ret.op = "read" /\ LastIO.answer.sign < 0 =>
        /\ ret.status = -1
        /\ git_error = "request aborted by user"
        /\ bytes_read = ret.pre.bytes_read
        /\ streams[ret.s].connectionNo = LastIO.conn
        /\ ret.pre.connectionNo # -1 => streams[ret.s].connectionNo = ret.pre.connectionNo
        /\ ret.pre.connectionNo = -1 => streams[ret.s].connectionNo = ret.host[1].result

C3_Witness ==
    /\ ret.op = "read"
    /\ LastIO.answer = JsInt(-1, 0, 1)
    /\ ret.status = -1
    /\ ret.pre.connectionNo = -1
    /\ streams[1].connectionNo = 0
    /\ bytes_read = Word(0, 5)

(***************************************************************************)
(* C4: the Content-Type sent when a stream's POST connection is opened is  *)
(* the upload-pack request type when the stream was created for an         *)
(* upload-pack action and the receive-pack request type when it was        *)
(* created for a receive-pack action, for every base URL.                  *)
(***************************************************************************)
C4_ContentTypeReflectsOperation ==
    \A i \in HostCalls("connect") : ret.host[i].method = "POST" =>
        /\ created[ret.s].action = "GIT_SERVICE_UPLOADPACK" => ret.host[i].ctype = "application/x-git-upload-pack-request"
        /\ created[ret.s].action = "GIT_SERVICE_RECEIVEPACK" => ret.host[i].ctype = "application/x-git-receive-pack-request"

(***************************************************************************)
(* C5 as stated: on every stream the first call to read opens a GET        *)
(* connection to the service URL before the host read, and the first call  *)
(* to write opens a POST connection to the service URL before the host     *)
(* write.                                                                  *)
(***************************************************************************)
C5_FirstReadOpensGetFirstWriteOpensPost ==
    /\ ret.op = "read" /\ hist[ret.s].reads = 1 =>
          /\ Len(ret.host) = 2
          /\ ret.host[1].prim = "connect"
          /\ ret.host[1].method = "GET"
    /\ ret.op = "write" /\ hist[ret.s].writes = 1 =>
          /\ Len(ret.host) = 2
          /\ ret.host[1].prim = "connect"
          /\ ret.host[1].method = "POST"

(***************************************************************************)
(* C5 as amended: a call on a stream whose handle is -1, as the first call *)
(* on every stream is, first opens a connection to the stream's service    *)
(* URL, by GET when the call is a read and by POST when it is a write, and *)
(* then issues the host read or write with the handle the open returned;   *)
(* a call on a stream whose handle is not -1 opens nothing and issues the  *)
(* host read or write with that handle, whichever method opened it.  No    *)
(* host read or write is issued on a stream before an open for it has      *)
(* completed.                                                              *)
(***************************************************************************)
C5_OpenPrecedesFirstHostIO ==
    /\ IsCall /\ ret.pre.connectionNo = -1 =>
          /\ Len(ret.host) = 2
          /\ ret.host[1].prim = "connect"
          /\ ret.host[1].method = (IF ret.op = "read" THEN "GET" ELSE "POST")
          /\ Spells(ret.host[1].url, streams[ret.s].service_url)
          /\ ret.host[2].prim = ret.op
          /\ ret.host[2].conn = ret.host[1].result
    /\ IsCall /\ ret.pre.connectionNo # -1 =>
          /\ Len(ret.host) = 1
          /\ ret.host[1].prim = ret.op
          /\ ret.host[1].conn = ret.pre.connectionNo
    /\ IsCall /\ hist[ret.s].calls = 1 => ret.pre.connectionNo = -1
    /\ \A id \in StreamIds : hist[id].opens = 0 => hist[id].calls = 0

C5_Witness ==
    /\ ret.op = "read"
    /\ hist[1].reads = 1
    /\ hist[1].writes = 1
    /\ Len(ret.host) = 1
    /\ \E c \in hostConns : c.method = "POST" /\ c.conn = ret.host[1].conn

(***************************************************************************)
(* C6: every call of write returns 0, whatever the host write returns and  *)
(* whatever handle the host open returned; it issues exactly one host      *)
(* write, with the stream's handle and the caller's buffer and length, and *)
(* reports no byte count.                                                  *)
(***************************************************************************)
C6_WriteAlwaysSucceeds ==
    ret.op = "write" =>
        /\ ret.status = 0
        /\ Cardinality(HostCalls("write")) = 1
        /\ LastIO.prim = "write"
        /\ LastIO.conn = streams[ret.s].connectionNo
        /\ LastIO.buffer = ret.args.buffer
        /\ LastIO.size = ret.args.size
        /\ bytes_read = ret.pre.bytes_read

C6_Witness ==
    /\ ret.op = "write"
    /\ LastIO.result = -1
    /\ LastIO.conn = -1
    /\ LastIO.buffer = "buf2"
    /\ ret.status = 0

(***************************************************************************)
(* C7 as stated: when the host read returns a non-negative byte count n,   *)
(* read returns 0 and bytes_read is n, and the stream keeps its            *)
(* connection.                                                             *)
(***************************************************************************)
C7_NonNegativeCountReported ==
    ret.op = "read" /\ LastIO.answer.sign >= 0 =>
        /\ ret.status = 0
        /\ bytes_read = Word(LastIO.answer.hi, LastIO.answer.lo)
        /\ streams[ret.s].connectionNo = LastIO.conn

(***************************************************************************)
(* C7 as amended: when the host read returns a non-negative byte count n   *)
(* below 2^31, read returns 0 and bytes_read is n; a count of 0 is a       *)
(* success with bytes_read = 0; the stream stays live with the handle the  *)
(* host read was issued with, so a later read uses the same connection.    *)
(***************************************************************************)
C7_CountBelow2p31Reported ==
    ret.op = "read" /\ LastIO.answer.sign >= 0 /\ LastIO.answer.hi < 32768 =>
        /\ ret.status = 0
        /\ bytes_read = Word(LastIO.answer.hi, LastIO.answer.lo)
        /\ heap[ret.s] = "live"
        /\ streams[ret.s].connectionNo = LastIO.conn
        /\ ret.pre.connectionNo # -1 => LastIO.conn = ret.pre.connectionNo /\ Len(ret.host) = 1

C7_Witness ==
    /\ ret.op = "read"
    /\ LastIO.answer = JsInt(1, 0, 0)
    /\ ret.status = 0
    /\ bytes_read = Word(0, 0)
    /\ hist[1].reads = 2
    /\ ret.pre.connectionNo = 0
    /\ ret.pre.bytes_read = Word(0, 5)

(***************************************************************************)
(* C8: stream free, subtransport close and subtransport free call no host  *)
(* primitive and leave the host's open connections as they are, so the     *)
(* connection a stream opened is still open after the stream is freed;     *)
(* close changes nothing and returns 0; free performs close, then releases *)
(* the subtransport.                                                       *)
(***************************************************************************)
C8_FreeAndCloseLeaveHostAlone ==
    [][/\ ret'.op \in {"stream_free", "close", "free"} =>
            /\ ret'.host = <<>>
            /\ hostConns' = hostConns
       /\ ret'.op = "stream_free" =>
            /\ heap[ret'.s] = "live" /\ heap'[ret'.s] = "freed"
            /\ \A id \in StreamIds \ {ret'.s} : heap'[id] = heap[id] /\ streams'[id] = streams[id]
            /\ subtransport' = subtransport
       /\ ret'.op = "close" =>
            /\ ret'.status = 0
            /\ UNCHANGED <<subtransport, heap, streams, hostConns, bytes_read, git_error>>
       /\ ret'.op = "free" =>
            /\ ret'.did = <<"emscriptenhttp_close", "git__free">>
            /\ subtransport = "live" /\ subtransport' = "freed"
            /\ UNCHANGED <<heap, streams, hostConns, bytes_read, git_error>>]_vars

C8_Witness ==
    /\ ret.op = "free"
    /\ subtransport = "freed"
    /\ heap[1] = "freed"
    /\ hist[1].opens = 1
    /\ \E c \in hostConns : c.conn = 1 /\ c.method = "POST"

(***************************************************************************)
(* C9: emscriptenhttp_action returns a fresh stream whose handle is -1 and *)
(* opens no host connection; under any interleaving of action, read, write *)
(* and free calls on several streams, a call on one stream leaves every    *)
(* other stream's service URL and handle as they are, and every host read  *)
(* or write it issues carries the handle of the stream it was called on.   *)
(***************************************************************************)
C9_StreamsShareNoState ==
    [][/\ ret'.op = "action" =>
            /\ heap[ret'.s] # "live" /\ heap'[ret'.s] = "live"
            /\ streams'[ret'.s].connectionNo = -1
            /\ ret'.host = <<>>
            /\ hostConns' = hostConns
       /\ ret'.op \in {"action", "read", "write", "stream_free"} =>
            \A id \in StreamIds \ {ret'.s} : streams'[id] = streams[id] /\ heap'[id] = heap[id]
       /\ ret'.op \in {"read", "write"} =>
            \A i \in 1..Len(ret'.host) : ret'.host[i].prim \in {"read", "write"} =>
                /\ ret'.host[i].conn = streams'[ret'.s].connectionNo
                /\ streams[ret'.s].connectionNo # -1 => ret'.host[i].conn = streams[ret'.s].connectionNo]_vars

C9_Witness ==
    /\ heap[1] = "live"
    /\ heap[2] = "live"
    /\ streams[1].connectionNo = 0
    /\ streams[2].connectionNo = 1
    /\ streams[1].service_url # streams[2].service_url
    /\ ret.op = "read"
    /\ ret.s = 2
    /\ hist[1].calls = 2

(***************************************************************************)
(* C10: the host read result, a size_t, is narrowed to a 32-bit int before *)
(* the sign test: a result below 2^31 is reported unchanged as bytes_read  *)
(* with status 0; a result whose unsigned value is 2^31 or more is treated *)
(* as negative: status -1, "request aborted by user", bytes_read left as   *)
(* it was.  The result is never compared with the capacity asked for: a    *)
(* count above the capacity is passed through.                             *)
(***************************************************************************)
C10_ReadResultNarrowedToInt ==
    ret.op = "read" =>
        /\ ~HighBit(LastIO.result) =>
              /\ ret.status = 0
              /\ bytes_read = LastIO.result
        /\ HighBit(LastIO.result) =>
              /\ ret.status = -1
              /\ git_error = "request aborted by user"
              /\ bytes_read = ret.pre.bytes_read
        /\ LastIO.answer.sign >= 0 => LastIO.result = Word(LastIO.answer.hi, LastIO.answer.lo)
        /\ LastIO.size = ret.args.size
        /\ ~HighBit(LastIO.result) /\ WordLess(ret.args.size, LastIO.result) => bytes_read = LastIO.result

C10_Witness ==
    /\ ret.op = "read"
    /\ LastIO.answer = JsInt(1, 32768, 0)
    /\ ret.args.size = Word(32768, 0)
    /\ ret.status = -1
    /\ ret.pre.bytes_read = Word(0, 5)
    /\ bytes_read = Word(0, 5)

====
